---- MODULE Spec2Model ----
(***************************************************************************)
(* A model of the Mastermind solver of src/src/main.rs: the sequence and   *)
(* code iterators, the scorer (evaluate), the feedback ranking (to_u32),   *)
(* the hypothesis filter (generate_valid_codes), the entropy guesser       *)
(* (SimpleGuesser::guess) and the two driver loops (main, interactive).    *)
(*                                                                         *)
(* A Guess<FIELDS> is a sequence of length FIELDS; position i of the Rust  *)
(* array is index i+1 here.  The const generics FIELDS and COLORS are      *)
(* chosen in the initial state and never change.                           *)
(***************************************************************************)
EXTENDS Integers, Sequences, FiniteSets, TLC

VARIABLES
    FIELDS,     \* const generic FIELDS (sequence length N)
    COLORS,     \* const generic COLORS (alphabet size K)
    debug,      \* build profile: debug assertions and overflow checks on
    laura,      \* cargo feature "laura": candidate universe is CodeIterator
    guessIter,  \* a GuessIterator: [current, exhausted]
    guessOut,   \* every value its next() returned so far, in call order
    codeIter,   \* a CodeIterator: [current]
    codeOut,    \* every value its next() returned so far, in call order
    evalIn,     \* arguments of a call of evaluate: [code, guess]
    evalOut,    \* what that call returned
    rankIn,     \* an Evaluation on which to_u32 is called
    rankOut,    \* what that call returned
    mode,       \* which driver loop runs: "main" or "interactive"
    code,       \* the secret of main
    history,    \* Vec<Entry>: sequence of [guess, evaluation]
    status,     \* "running", "reading" (interactive waits for stdin),
                \* "solved" (main broke out) or "panicked"
    call        \* the last call of SimpleGuesser::guess: its codes and result

confVars == <<FIELDS, COLORS, debug, laura>>
iterVars == <<guessIter, guessOut, codeIter, codeOut>>
evalVars == <<evalIn, evalOut, rankIn, rankOut>>
gameVars == <<mode, code, history, status, call>>
vars == <<confVars, iterVars, evalVars, gameVars>>

-----------------------------------------------------------------------------
(* Bounds of the model *)

\* largest FIELDS of the iterator and scorer specifications
MaxFields == 3
\* largest COLORS of the iterator and scorer specifications
MaxColors == 4
\* calls of next() made after an iterator first returned None
MaxExtraCalls == 2
\* an oracle or a caller may hand in counts up to FIELDS + MaxExcess
MaxExcess == 2
\* largest FIELDS and COLORS of the game specification
GameFields == 2
GameColors == 3
\* rounds of main before the model stops following it
MaxMainRounds == 4
\* entries the oracle of the interactive loop gives before the model stops
MaxOracleRounds == 1
\* the oracle types counts up to FIELDS + OracleExcess
OracleExcess == 1

Pow2(n) == 2 ^ n

Some(v) == [some |-> TRUE, val |-> v]
None == [some |-> FALSE, val |-> <<>>]

-----------------------------------------------------------------------------
(* Guess, GuessIterator, CodeIterator *)

\* Guess::default(): [0; FIELDS]
GuessDefault(n) == [i \in 1..n |-> 0]

\* the u32 test `mask & (1 << color) > 0`
BitSet(mask, color) == (mask \div Pow2(color)) % 2 = 1

\* the u32 update `mask |= 1 << color`
BitOr(mask, color) == IF BitSet(mask, color) THEN mask ELSE mask + Pow2(color)

RECURSIVE is_valid_code_from(_, _, _)
is_valid_code_from(g, i, colors) ==
    IF i > Len(g) THEN TRUE
    ELSE IF BitSet(colors, g[i]) THEN FALSE
    ELSE is_valid_code_from(g, i + 1, BitOr(colors, g[i]))

\* Guess::is_valid_code
is_valid_code(g) == is_valid_code_from(g, 1, 0)

\* Carry with the test `> COLORS` in place of `>= COLORS`
RECURSIVE CarryLate(_, _, _)
CarryLate(cur, i, k) ==
    IF i > Len(cur) - 1 THEN cur
    ELSE IF cur[i] > k
         THEN CarryLate([cur EXCEPT ![i] = 0, ![i + 1] = @ + 1], i + 1, k)
         ELSE CarryLate(cur, i + 1, k)

\* the carry loop `for i in 0..(FIELDS - 1)` of GuessIterator::next
RECURSIVE Carry(_, _, _)
Carry(cur, i, k) ==
    IF i > Len(cur) - 1 THEN cur
    ELSE IF cur[i] >= k
         THEN Carry([cur EXCEPT ![i] = 0, ![i + 1] = @ + 1], i + 1, k)
         ELSE Carry(cur, i + 1, k)

\* GuessIterator::next on the iterator `it`: the value returned and the
\* iterator afterwards
GuessIterator_next(it, k) ==
    IF it.exhausted
    THEN [ret |-> None, it |-> it]
    ELSE [ret |-> Some(it.current),
          it  |-> [current   |-> Carry([it.current EXCEPT ![1] = @ + 1], 1, k),
                   exhausted |-> \A i \in 1..Len(it.current) :
                                     it.current[i] = k - 1]]

\* Guess::iter: a GuessIterator that starts at the guess itself
Guess_iter(g) == [current |-> g, exhausted |-> FALSE]

\* Iterator::find(|guess| guess.is_valid_code()) on a GuessIterator
RECURSIVE FindValid(_, _)
FindValid(it, k) ==
    LET r == GuessIterator_next(it, k)
    IN  IF ~r.ret.some THEN None
        ELSE IF is_valid_code(r.ret.val) THEN r.ret
        ELSE FindValid(r.it, k)

\* CodeIterator::next: `current.iter().skip(1).find(is_valid_code)?`
CodeIterator_next(it, k) ==
    LET skipped == GuessIterator_next(Guess_iter(it.current), k).it
        found   == FindValid(skipped, k)
    IN  IF found.some
        THEN [ret |-> found, it |-> [current |-> found.val]]
        ELSE [ret |-> None, it |-> it]

\* iter.collect() of a GuessIterator
RECURSIVE CollectGuesses(_, _, _)
CollectGuesses(it, k, acc) ==
    LET r == GuessIterator_next(it, k)
    IN  IF r.ret.some THEN CollectGuesses(r.it, k, Append(acc, r.ret.val))
        ELSE acc

\* iter.collect() of a CodeIterator
RECURSIVE CollectCodes(_, _, _)
CollectCodes(it, k, acc) ==
    LET r == CodeIterator_next(it, k)
    IN  IF r.ret.some THEN CollectCodes(r.it, k, Append(acc, r.ret.val))
        ELSE acc

\* GuessIterator::<FIELDS, COLORS>::default().collect()
AllGuesses(n, k) == CollectGuesses(Guess_iter(GuessDefault(n)), k, <<>>)

\* CodeIterator::<FIELDS, COLORS>::default().collect()
AllCodes(n, k) == CollectCodes([current |-> GuessDefault(n)], k, <<>>)

-----------------------------------------------------------------------------
(* Evaluation, evaluate *)

\* max_gauss and Evaluation::MAX_GAUSS: (FIELDS + 2) * (FIELDS + 1) / 2
max_gauss(i) == ((i + 2) * (i + 1)) \div 2

\* lut_for_index one step down the triangular numbers: (i + 1) * i / 2
lut_for_index_low(i) == ((i + 1) * i) \div 2

\* Evaluation::lut_for_index on a u32.  A u32 is kept as the integer of
\* least magnitude congruent to it modulo 2^32 (a negative integer x stands
\* for 2^32 + x); (i + 2) * (i + 1) is then never negative, so halving it is
\* halving the wrapped u32 product.
lut_for_index(i) == ((i + 2) * (i + 1)) \div 2

\* the bitmask of the colors of `code`, built by the first loop of evaluate
RECURSIVE ColorMask(_, _, _)
ColorMask(c, i, colors) ==
    IF i > Len(c) THEN colors ELSE ColorMask(c, i + 1, BitOr(colors, c[i]))

\* CountMatches that counts a color as inexact only where it is not exact
RECURSIVE CountMatchesElse(_, _, _, _, _)
CountMatchesElse(c, g, colors, i, acc) ==
    IF i > Len(c) THEN acc
    ELSE CountMatchesElse(c, g, colors, i + 1,
            [exact_matches   |-> acc.exact_matches
                                   + (IF c[i] = g[i] THEN 1 ELSE 0),
             inexact_matches |-> acc.inexact_matches
                                   + (IF c[i] # g[i] /\ BitSet(colors, g[i])
                                      THEN 1 ELSE 0)])

\* the second loop of evaluate: [exact_matches, inexact_matches]
RECURSIVE CountMatches(_, _, _, _, _)
CountMatches(c, g, colors, i, acc) ==
    IF i > Len(c) THEN acc
    ELSE CountMatches(c, g, colors, i + 1,
            [exact_matches   |-> acc.exact_matches
                                   + (IF c[i] = g[i] THEN 1 ELSE 0),
             inexact_matches |-> acc.inexact_matches
                                   + (IF BitSet(colors, g[i]) THEN 1 ELSE 0)])

\* evaluate that returns inexact_matches as correct_color, without
\* subtracting the exact matches
evaluate_no_subtract(c, g, dbg) ==
    LET m == CountMatches(c, g, ColorMask(c, 1, 0), 1,
                          [exact_matches |-> 0, inexact_matches |-> 0])
    IN  [panic |-> dbg /\ m.inexact_matches > Len(c),
         correct_color |-> m.inexact_matches,
         exact |-> m.exact_matches]

\* evaluate(code, guess).  panic: the debug assertion failed, or the
\* subtraction inexact_matches - exact_matches overflowed in a debug build.
\* In a release build the subtraction wraps.
evaluate(c, g, dbg) ==
    LET m == CountMatches(c, g, ColorMask(c, 1, 0), 1,
                          [exact_matches |-> 0, inexact_matches |-> 0])
    IN  [panic |-> dbg /\ (m.inexact_matches > Len(c)
                           \/ m.inexact_matches < m.exact_matches),
         correct_color |-> m.inexact_matches - m.exact_matches,
         exact |-> m.exact_matches]

\* the Evaluation a call of evaluate returned
Eval(r) == [correct_color |-> r.correct_color, exact |-> r.exact]

\* Evaluation::to_u32 for Evaluation<n>.  A debug build panics on u32
\* overflow (FIELDS - correct_color, and the outer subtraction); a release
\* build wraps.  val is the u32 returned, kept as for lut_for_index.
to_u32(e, n, dbg) ==
    LET i == n - e.correct_color
        v == max_gauss(n) + e.exact - lut_for_index(i)
    IN  [panic |-> dbg /\ (i < 0 \/ v < 0), val |-> v]

-----------------------------------------------------------------------------
(* SimpleGuesser *)

\* f64 scores are kept in fixed point: Scale units are one bit.
Scale == 1000000

\* XLog2X[c] = floor(c * log2(c) * Scale) for c in 1..120
XLog2X ==
    <<
       0, 2000000, 4754887, 8000000, 11609640, 15509775,
       19651484, 24000000, 28529325, 33219280, 38053747, 43019550,
       48105716, 53302968, 58603358, 64000000, 69486868, 75058650,
       80710622, 86438561, 92238665, 98107495, 104041924, 110039100,
       116096404, 122211432, 128381962, 134605937, 140881448, 147206717,
       153580085, 160000000, 166465005, 172973736, 179524905, 186117300,
       192749774, 199421245, 206130686, 212877123, 219659632, 226477331,
       233329384, 240214991, 247133389, 254083849, 261065676, 268078200,
       275120782, 282192809, 289293692, 296422865, 303579784, 310763925,
       317974784, 325211875, 332474730, 339762897, 347075939, 354413435,
       361774977, 369160171, 376568635, 384000000, 391453907, 398930011,
       406427975, 413947473, 421488187, 429049811, 436632045, 444234600,
       451857192, 459499549, 467161401, 474842491, 482542563, 490261373,
       497998679, 505754247, 513527850, 521319264, 529128272, 536954663,
       544798229, 552658768, 560536084, 568429982, 576340275, 584266778,
       592209312, 600167699, 608141769, 616131352, 624136282, 632156400,
       640191545, 648241564, 656306305, 664385618, 672479359, 680587384,
       688709554, 696845730, 704995779, 713159568, 721336967, 729527850,
       737732091, 745949568, 754180161, 762423751, 770680222, 778949461,
       787231355, 795525795, 803832672, 812151879, 820483313, 828826871
    >>

\* SimpleGuesser::code_is_valid from entry j on: [panic, valid].  The
\* debug assertion is checked entry by entry, before the entry's comparison.
RECURSIVE code_is_valid_from(_, _, _, _)
code_is_valid_from(h, c, j, dbg) ==
    IF j > Len(h) THEN [panic |-> FALSE, valid |-> TRUE]
    ELSE IF dbg /\ h[j].evaluation.correct_color + h[j].evaluation.exact > Len(c)
         THEN [panic |-> TRUE, valid |-> FALSE]
    ELSE LET r == evaluate(c, h[j].guess, dbg)
         IN  IF r.panic THEN [panic |-> TRUE, valid |-> FALSE]
             ELSE IF Eval(r) # h[j].evaluation
                  THEN [panic |-> FALSE, valid |-> FALSE]
             ELSE code_is_valid_from(h, c, j + 1, dbg)

\* SimpleGuesser::code_is_valid
code_is_valid(h, c, dbg) == code_is_valid_from(h, c, 1, dbg)

\* the loop of generate_valid_codes over the codes all[j..]
RECURSIVE FilterCodes(_, _, _, _, _)
FilterCodes(all, h, j, dbg, acc) ==
    IF j > Len(all) THEN [panic |-> FALSE, codes |-> acc]
    ELSE LET v == code_is_valid(h, all[j], dbg)
         IN  IF v.panic THEN [panic |-> TRUE, codes |-> <<>>]
             ELSE FilterCodes(all, h, j + 1, dbg,
                              IF v.valid THEN Append(acc, all[j]) ELSE acc)

\* SimpleGuesser::generate_valid_codes: [panic, codes]
generate_valid_codes(h, n, k, dbg) == FilterCodes(AllCodes(n, k), h, 1, dbg, <<>>)

\* the bonus test on the last bucket, where the other index convention
\* puts the all-exact feedback
BonusLastBucket(counts, sum, n) == counts[max_gauss(n) - 1] = 1 /\ sum = 1

\* the bonus test of guess: `counts[FIELDS as usize] == 1 && sum == 1`
Bonus(counts, sum, n) == counts[n] = 1 /\ sum = 1

\* the loop `for code in codes.iter()` of guess, from code j on: the array
\* counts (indexed from 0), or a panic: of evaluate, of to_u32, or of the
\* indexing counts[index] with index >= PARTITIONS
RECURSIVE CountBuckets(_, _, _, _, _, _)
CountBuckets(codes, g, j, n, dbg, counts) ==
    IF j > Len(codes) THEN [panic |-> FALSE, counts |-> counts]
    ELSE LET result == evaluate(codes[j], g, dbg)
             index  == to_u32(Eval(result), n, dbg)
         IN  IF result.panic \/ index.panic \/ index.val \notin DOMAIN counts
             THEN [panic |-> TRUE, counts |-> counts]
             ELSE CountBuckets(codes, g, j + 1, n, dbg,
                               [counts EXCEPT ![index.val] = @ + 1])

RECURSIVE SumTo(_, _)
\* counts[0] + ... + counts[i]
SumTo(counts, i) == IF i < 0 THEN 0 ELSE counts[i] + SumTo(counts, i - 1)

RECURSIVE XLog2XSumTo(_, _)
\* the sum of c * log2(c) over the non-zero counts[0..i], in fixed point
XLog2XSumTo(counts, i) ==
    IF i < 0 THEN 0
    ELSE (IF counts[i] = 0 THEN 0 ELSE XLog2X[counts[i]])
         + XLog2XSumTo(counts, i - 1)

\* the closure of guess's map for candidate number i: [panic, index, guess,
\* counts, sum, weight], with information = weight / (sum * Scale) bits.
\* The entropy sum(-p * log2(p)), p = count / sum, is
\* log2(sum) - sum(c * log2(c)) / sum; a term with count 0 is NaN in the
\* code and replaced by 0; with sum = 0 every term is.  The bonus adds
\* PARTITIONS - 1 bits.
ScoreGuess(i, g, codes, n, dbg) ==
    LET partitions == max_gauss(n)
        b == CountBuckets(codes, g, 1, n, dbg, [x \in 0..(partitions - 1) |-> 0])
        sum == SumTo(b.counts, partitions - 1)
        entropy == IF sum = 0 THEN 0
                   ELSE XLog2X[sum] - XLog2XSumTo(b.counts, partitions - 1)
    IN  [panic  |-> b.panic,
         index  |-> i,
         guess  |-> g,
         counts |-> b.counts,
         sum    |-> sum,
         weight |-> entropy + (IF Bonus(b.counts, sum, n)
                               THEN (partitions - 1) * Scale * sum ELSE 0)]

\* the candidates of guess: CodeIterator with the feature "laura",
\* GuessIterator without
Candidates(n, k, lau) == IF lau THEN AllCodes(n, k) ELSE AllGuesses(n, k)

\* two scores closer than this may be equal as real numbers: the fixed-point
\* sums round by less than one unit per bucket
Rounding(n) == max_gauss(n)

\* par_iter().max_by(partial_cmp): the reduction keeps the right-hand item
\* unless the left-hand one is greater, and combines neighbours in order, so
\* it returns the last of the candidates with the largest f64 score.  Equal
\* arrays of counts give equal f64 scores; scores equal as real numbers but
\* summed from different arrays may differ in the last bits, either way.
\* So a candidate can be returned iff its score is, up to rounding, the largest,
\* and no later such candidate has the same array of counts.
max_by(scored, n) ==
    LET best == CHOOSE s \in scored : \A t \in scored : t.weight <= s.weight
        top == {s \in scored : s.weight >= best.weight - Rounding(n)}
    IN  {s \in top : \A t \in top : t.counts = s.counts => t.index <= s.index}

\* SimpleGuesser::guess(history): the results the call can have, each
\* [history, panic, where, codes, guess, score]; score is in fixed point.
\* The call panics in generate_valid_codes, in a candidate's scoring, or on
\* the unwrap of max_by's None when there is no candidate.
guess(h, n, k, dbg, lau) ==
    LET valid == generate_valid_codes(h, n, k, dbg)
        guesses == Candidates(n, k, lau)
        scored == {ScoreGuess(i, guesses[i], valid.codes, n, dbg) :
                      i \in 1..Len(guesses)}
        Panicked(where) == [history |-> h, panic |-> TRUE, where |-> where,
                            codes |-> valid.codes, guess |-> <<>>, score |-> 0]
    IN  IF valid.panic THEN {Panicked("generate_valid_codes")}
        ELSE IF \E s \in scored : s.panic THEN {Panicked("map")}
        ELSE IF scored = {} THEN {Panicked("unwrap")}
        ELSE {[history |-> h, panic |-> FALSE, where |-> "",
               codes |-> valid.codes, guess |-> s.guess,
               score |-> IF s.sum = 0 THEN 0 ELSE s.weight \div s.sum] :
                  s \in max_by(scored, n)}

-----------------------------------------------------------------------------
(* Values of the variables a specification does not use *)

IdleIter ==
    /\ guessIter = Guess_iter(<<>>)
    /\ guessOut = <<>>
    /\ codeIter = [current |-> <<>>]
    /\ codeOut = <<>>

IdleEval ==
    /\ evalIn = None
    /\ evalOut = None
    /\ rankIn = None
    /\ rankOut = None

IdleGame ==
    /\ mode = "none"
    /\ code = <<>>
    /\ history = <<>>
    /\ status = "idle"
    /\ call = None

-----------------------------------------------------------------------------
(* The iterators: one GuessIterator and one CodeIterator, both fresh, on   *)
(* which next() is called again and again.                                 *)

\* how many of the values returned so far are None
Nones(out) == Cardinality({j \in 1..Len(out) : ~out[j].some})

InitIter ==
    /\ FIELDS \in 1..MaxFields
    /\ COLORS \in 1..MaxColors
    /\ debug = FALSE
    /\ laura = FALSE
    /\ guessIter = Guess_iter(GuessDefault(FIELDS))
    /\ guessOut = <<>>
    /\ codeIter = [current |-> GuessDefault(FIELDS)]
    /\ codeOut = <<>>
    /\ IdleEval
    /\ IdleGame

\* one call of GuessIterator::next
GuessIteratorNext ==
    /\ Nones(guessOut) <= MaxExtraCalls
    /\ LET r == GuessIterator_next(guessIter, COLORS)
       IN  /\ guessIter' = r.it
           /\ guessOut' = Append(guessOut, r.ret)
    /\ UNCHANGED <<confVars, codeIter, codeOut, evalVars, gameVars>>

\* one call of CodeIterator::next
CodeIteratorNext ==
    /\ Nones(codeOut) <= MaxExtraCalls
    /\ LET r == CodeIterator_next(codeIter, COLORS)
       IN  /\ codeIter' = r.it
           /\ codeOut' = Append(codeOut, r.ret)
    /\ UNCHANGED <<confVars, guessIter, guessOut, evalVars, gameVars>>

NextIter == GuessIteratorNext \/ CodeIteratorNext

SpecIter == InitIter /\ [][NextIter]_vars

-----------------------------------------------------------------------------
(* The pure functions: evaluate on a code and a guess, to_u32 on a pair.   *)

\* every length-n sequence over [0, k)
SequenceSpace(n, k) == [1..n -> 0..(k - 1)]

\* the sequences with pairwise-distinct symbols
Codes(n, k) == {c \in SequenceSpace(n, k) : \A i, j \in 1..n : c[i] = c[j] => i = j}

InitEval ==
    /\ FIELDS \in 1..MaxFields
    /\ COLORS \in FIELDS..MaxColors
    /\ debug \in BOOLEAN
    /\ laura = FALSE
    /\ \/ /\ evalIn \in {Some([code |-> c, guess |-> g]) :
                            c \in Codes(FIELDS, COLORS),
                            g \in SequenceSpace(FIELDS, COLORS)}
          /\ rankIn = None
       \/ /\ evalIn = None
          /\ rankIn \in {Some([correct_color |-> cc, exact |-> ex]) :
                            cc \in 0..(FIELDS + MaxExcess),
                            ex \in 0..(FIELDS + MaxExcess)}
    /\ evalOut = None
    /\ rankOut = None
    /\ IdleIter
    /\ IdleGame

\* the call evaluate(code, guess)
Evaluate ==
    /\ evalIn.some
    /\ ~evalOut.some
    /\ evalOut' = Some(evaluate(evalIn.val.code, evalIn.val.guess, debug))
    /\ UNCHANGED <<confVars, iterVars, evalIn, rankIn, rankOut, gameVars>>

\* the call evaluation.to_u32()
ToU32 ==
    /\ rankIn.some
    /\ ~rankOut.some
    /\ rankOut' = Some(to_u32(rankIn.val, FIELDS, debug))
    /\ UNCHANGED <<confVars, iterVars, evalIn, evalOut, rankIn, gameVars>>

NextEval == Evaluate \/ ToU32

SpecEval == InitEval /\ [][NextEval]_vars

-----------------------------------------------------------------------------
(* The driver loops: main plays against a baked-in secret, interactive     *)
(* against an oracle that types the two counts.                            *)

Init ==
    /\ FIELDS \in 1..GameFields
    /\ COLORS \in FIELDS..GameColors
    /\ debug \in BOOLEAN
    /\ laura \in BOOLEAN
    /\ mode \in {"main", "interactive"}
    /\ code \in IF mode = "main" THEN Codes(FIELDS, COLORS) ELSE {<<>>}
    /\ history = <<>>
    /\ status = "running"
    /\ call = None
    /\ IdleIter
    /\ IdleEval

\* one iteration of the loop of main
MainRound ==
    /\ mode = "main"
    /\ status = "running"
    /\ Len(history) < MaxMainRounds
    /\ \E r \in guess(history, FIELDS, COLORS, debug, laura) :
          LET e == evaluate(code, r.guess, debug)
          IN  /\ call' = Some(r)
              /\ IF r.panic \/ e.panic
                 THEN /\ status' = "panicked"
                      /\ UNCHANGED history
                 ELSE /\ history' = Append(history,
                                       [guess |-> r.guess, evaluation |-> Eval(e)])
                      /\ status' = IF code = r.guess THEN "solved" ELSE "running"
    /\ UNCHANGED <<confVars, iterVars, evalVars, mode, code>>

\* the first half of an iteration of interactive: the guess, printed
InteractiveGuess ==
    /\ mode = "interactive"
    /\ status = "running"
    /\ \E r \in guess(history, FIELDS, COLORS, debug, laura) :
          /\ call' = Some(r)
          /\ status' = IF r.panic THEN "panicked" ELSE "reading"
    /\ UNCHANGED <<confVars, iterVars, evalVars, mode, code, history>>

\* the second half: the two lines read from stdin, parsed as u32 (the unwrap
\* of a failed parse panics), and the entry pushed
InteractiveInput ==
    /\ mode = "interactive"
    /\ status = "reading"
    /\ Len(history) < MaxOracleRounds
    /\ \/ /\ status' = "panicked"
          /\ UNCHANGED history
       \/ \E colors, exact_matches \in 0..(FIELDS + OracleExcess) :
             /\ history' = Append(history,
                    [guess |-> call.val.guess,
                     evaluation |-> [correct_color |-> colors,
                                     exact |-> exact_matches]])
             /\ status' = "running"
    /\ UNCHANGED <<confVars, iterVars, evalVars, mode, code, call>>

Next == MainRound \/ InteractiveGuess \/ InteractiveInput

Spec == Init /\ [][Next]_vars

-----------------------------------------------------------------------------
(* Properties *)

Range(q) == {q[j] : j \in 1..Len(q)}

\* the little-endian base-k digits of i, n of them
Digits(i, n, k) == [p \in 1..n |-> (i \div (k ^ (p - 1))) % k]

\* whether the symbols of a sequence are pairwise distinct
Distinct(c) == \A i, j \in 1..Len(c) : c[i] = c[j] => i = j

\* the sequences with pairwise-distinct symbols, in counting order
CodesInOrder(n, k) ==
    LET all == [j \in 1..(k ^ n) |-> Digits(j - 1, n, k)]
    IN  SelectSeq(all, Distinct)

\* whether a feedback pair is feasible for length n
Feasible(e, n) ==
    e.exact >= 0 /\ e.correct_color >= 0 /\ e.exact + e.correct_color <= n

FeasiblePairs(n) ==
    {e \in [correct_color : 0..n, exact : 0..n] : Feasible(e, n)}

\* whether code c agrees with every entry of history h
Consistent(c, h) ==
    \A j \in 1..Len(h) : Eval(evaluate(c, h[j].guess, FALSE)) = h[j].evaluation

\* C1: in main, for every secret that is a valid code, the consistent set
\* computed in each round contains the secret (and the game ends solved).
C1_SecretStaysConsistent ==
    (mode = "main" /\ call.some /\ ~call.val.panic)
        => code \in Range(call.val.codes)

\* C2: evaluate returns exact = the number of positions where guess and code
\* agree, colorOnly = the number of other positions whose guess color occurs
\* in the code, never panics, and scores a code against itself as (0, N).
C2_EvaluateCounts ==
    evalOut.some =>
        LET c == evalIn.val.code
            g == evalIn.val.guess
            r == evalOut.val
        IN  /\ ~r.panic
            /\ r.exact = Cardinality({i \in 1..FIELDS : g[i] = c[i]})
            /\ r.correct_color =
                   Cardinality({i \in 1..FIELDS :
                                   g[i] # c[i] /\ \E j \in 1..FIELDS : c[j] = g[i]})
            /\ (g = c => r.correct_color = 0 /\ r.exact = FIELDS)

\* a guess that repeats a color of the code at two places, neither exact
C2_Witness ==
    /\ evalOut.some
    /\ FIELDS = 3
    /\ evalOut.val.correct_color = 2
    /\ \E i, j \in 1..FIELDS :
          /\ i # j
          /\ evalIn.val.guess[i] = evalIn.val.guess[j]
          /\ evalIn.val.guess[i] # evalIn.val.code[i]
          /\ evalIn.val.guess[j] # evalIn.val.code[j]

\* C3: to_u32 maps the feasible pairs one-to-one onto [0, MaxPartitions):
\* the index of a feasible pair is in range, no other feasible pair has it,
\* and every index in range is the index of a feasible pair.
C3_RankBijection ==
    (rankOut.some /\ Feasible(rankIn.val, FIELDS)) =>
        /\ ~rankOut.val.panic
        /\ rankOut.val.val \in 0..(max_gauss(FIELDS) - 1)
        /\ \A e \in FeasiblePairs(FIELDS) :
              to_u32(e, FIELDS, debug).val = rankOut.val.val => e = rankIn.val
        /\ \A x \in 0..(max_gauss(FIELDS) - 1) :
              \E e \in FeasiblePairs(FIELDS) : to_u32(e, FIELDS, debug).val = x

\* the pair of the test evaluation_to_u32_one_two
C3_Witness ==
    /\ rankOut.some
    /\ FIELDS = 3
    /\ rankIn.val = [correct_color |-> 1, exact |-> 2]
    /\ rankOut.val = [panic |-> FALSE, val |-> 6]

\* C4: for N >= 1 and K >= N a fresh CodeIterator returns the sequences with
\* pairwise-distinct symbols, each once, in counting order, and then None.
C4_CodeIteratorYieldsAllCodes ==
    COLORS >= FIELDS =>
        LET expected == CodesInOrder(FIELDS, COLORS)
        IN  \A j \in 1..Len(codeOut) :
               codeOut[j] = IF j <= Len(expected) THEN Some(expected[j]) ELSE None

\* C5: a fresh GuessIterator returns the K^N sequences in counting order,
\* position 0 fastest, and None on every call after that.
C5_GuessIteratorCounts ==
    \A j \in 1..Len(guessOut) :
        guessOut[j] = IF j <= COLORS ^ FIELDS
                      THEN Some(Digits(j - 1, FIELDS, COLORS))
                      ELSE None

\* the iterator ran to its end and was called twice more
C5_Witness ==
    /\ FIELDS = 3
    /\ COLORS = 4
    /\ Len(guessOut) = 66
    /\ guessOut[64] = Some(<<3, 3, 3>>)
    /\ guessOut[65] = None
    /\ guessOut[66] = None

\* C6: when no valid code agrees with every entry of the history, guess
\* does not return an ordinary result.  (Stated for FIELDS >= 2, where
\* CodeIterator yields every valid code.)
C6_EmptySetSurfaced ==
    (/\ call.some
     /\ FIELDS >= 2
     /\ \A c \in Codes(FIELDS, COLORS) : ~Consistent(c, call.val.history))
        => call.val.panic

\* C7: to_u32 on an infeasible pair aborts instead of returning an index.
C7_InfeasibleAborts ==
    (rankOut.some /\ ~Feasible(rankIn.val, FIELDS)) => rankOut.val.panic

\* C8: the list generate_valid_codes returns holds exactly the valid codes
\* that agree with every entry of the history, and is a subset of the list
\* for every shorter history.
C8_FilterExact ==
    (call.some /\ call.val.where # "generate_valid_codes") =>
        LET h == call.val.history
        IN  /\ Range(call.val.codes) =
                   {c \in Codes(FIELDS, COLORS) : Consistent(c, h)}
            /\ \A l \in 0..Len(h) :
                  Range(call.val.codes) \subseteq
                      Range(generate_valid_codes(SubSeq(h, 1, l), FIELDS, COLORS,
                                                 FALSE).codes)

\* C9: when exactly one code c is consistent, guess returns c: the bucket of
\* the bonus, counts[N], is the index of the all-exact feedback, among the
\* candidates only c has it at 1, and the score of c is above every other
\* candidate's by more than rounding, so any order of reduction returns c.
C9_SingleCodeReturned ==
    (call.some /\ call.val.where # "generate_valid_codes"
               /\ Len(call.val.codes) = 1) =>
        LET c == call.val.codes[1]
            guesses == Candidates(FIELDS, COLORS, laura)
            Scored(i) == ScoreGuess(i, guesses[i], call.val.codes, FIELDS, debug)
        IN  /\ ~call.val.panic
            /\ call.val.guess = c
            /\ to_u32([correct_color |-> 0, exact |-> FIELDS], FIELDS, debug).val
                   = FIELDS
            /\ \A i \in 1..Len(guesses) :
                  (Scored(i).counts[FIELDS] = 1) <=> (guesses[i] = c)
            /\ \E i \in 1..Len(guesses) :
                  /\ guesses[i] = c
                  /\ \A j \in 1..Len(guesses) :
                        j # i => Scored(j).weight + Rounding(FIELDS) < Scored(i).weight

\* a history that leaves one code, and the guess that names it
C9_Witness ==
    /\ call.some
    /\ FIELDS = 2
    /\ COLORS = 3
    /\ call.val.history # <<>>
    /\ Len(call.val.codes) = 1
    /\ call.val.guess = call.val.codes[1]

\* C10: for every valid code and every candidate, the feedback of evaluate
\* is feasible without a failed assertion or an underflow, its index is
\* below PARTITIONS, and each candidate's counts sum to the size of the
\* consistent set.
C10_BucketsInRange ==
    (call.some /\ call.val.where # "generate_valid_codes") =>
        LET guesses == Candidates(FIELDS, COLORS, laura)
        IN  /\ call.val.where # "map"
            /\ \A i \in 1..Len(guesses) :
                  /\ \A c \in Codes(FIELDS, COLORS) :
                        LET r == evaluate(c, guesses[i], TRUE)
                        IN  /\ ~r.panic
                            /\ Feasible(Eval(r), FIELDS)
                            /\ ~to_u32(Eval(r), FIELDS, TRUE).panic
                            /\ to_u32(Eval(r), FIELDS, debug).val
                                   \in 0..(max_gauss(FIELDS) - 1)
                  /\ ScoreGuess(i, guesses[i], call.val.codes, FIELDS, debug).sum
                         = Len(call.val.codes)

\* a round with several codes left whose returned guess repeats a color
C10_Witness ==
    /\ call.some
    /\ ~call.val.panic
    /\ FIELDS = 2
    /\ Len(call.val.codes) >= 2
    /\ call.val.history # <<>>
    /\ call.val.guess[1] = call.val.guess[2]

====
